---- MODULE Spec2Model ----
(***************************************************************************)
(* Model of the two command-line tools of the repository:                  *)
(*   scripts/progress.py            the deliverable tracker                *)
(*   scripts/grafana/grafana_api.py the Grafana HTTP API helper            *)
(* The tools do not interact; each has its own specification               *)
(* (Spec, SpecTwice and SpecOverall for the tracker, SpecApi for the API    *)
(* helper).                                                                *)
(*                                                                         *)
(* check_pr_status reads the module-level table DELIVERABLES; the model    *)
(* lets it hold any checklist of bounded size, the hard-coded table being  *)
(* one such value.  The filesystem and the network are the environment:    *)
(* the tree below PROJECT_ROOT starts in any state of FsStates, urlopen    *)
(* ends in any of Outcomes; opening .progress.json for writing and reading *)
(* the --data-file are taken to succeed.  The report main() prints to      *)
(* stdout in progress.py is not part of the state.                         *)
(***************************************************************************)
EXTENDS Integers, Sequences, FiniteSets, TLC

VARIABLES
    DELIVERABLES,   \* progress.py: the checklist, a sequence of milestones
    fs,             \* progress.py: kind of every path below PROJECT_ROOT
    pc,             \* progress.py: position inside main()
    results,        \* progress.py: value returned by check_pr_status()
    snapshot,       \* progress.py: <<>> or <<the output written to .progress.json>>
    history,        \* progress.py: per finished run, what it saw and wrote
    env,            \* grafana_api.py: GRAFANA_URL / GRAFANA_API_KEY
    args,           \* grafana_api.py: parsed command line
    apc,            \* grafana_api.py: position inside main()
    query,          \* grafana_api.py: local `query` of main() (<<>> until assigned)
    url,            \* grafana_api.py: local `url` of main()
    payload,        \* grafana_api.py: local `payload` of main()
    requests,       \* grafana_api.py: HTTP requests handed to urlopen
    response,       \* grafana_api.py: local `response` of main()
    stderr,         \* grafana_api.py: lines printed to sys.stderr
    stdout,         \* grafana_api.py: what was written to sys.stdout
    ret             \* grafana_api.py: <<>> or <<the value main() returned>>

trackerVars == <<DELIVERABLES, fs, pc, results, snapshot, history>>
apiVars == <<env, args, apc, query, url, payload, requests, response, stderr, stdout, ret>>
vars == <<DELIVERABLES, fs, pc, results, snapshot, history,
          env, args, apc, query, url, payload, requests, response, stderr, stdout, ret>>

\* Python None, comparable with the character sequences that model str
None == <<"None">>

-----------------------------------------------------------------------------
(* Bounds                                                                  *)

MaxMilestones == 2
MaxChecks == 2
FsMaxMilestones == 1
FsMaxChecks == 2
MaxRuns == 2
OvMaxMilestones == 3
OvMaxChecks == 3
MaxQueryItems == 2

-----------------------------------------------------------------------------
(* The project tree.  A path is named by the string a check would carry;   *)
(* "." is PROJECT_ROOT itself.  Names are kept as character sequences so   *)
(* that startswith(".") is computed, not assumed.                          *)

SnapshotPath == ".progress.json"

Paths == {".", "a", "b", "b/.gitkeep", "b/r", SnapshotPath}

Parent(p) ==
    CASE p = "a" -> "."
      [] p = "b" -> "."
      [] p = SnapshotPath -> "."
      [] p = "b/.gitkeep" -> "b"
      [] p = "b/r" -> "b"
      [] OTHER -> ""

Name(p) ==
    CASE p = "a" -> <<"a">>
      [] p = "b" -> <<"b">>
      [] p = SnapshotPath -> <<".", "p", "r", "o", "g", "r", "e", "s", "s", ".", "j", "s", "o", "n">>
      [] p = "b/.gitkeep" -> <<".", "g", "i", "t", "k", "e", "e", "p">>
      [] p = "b/r" -> <<"r">>
      [] OTHER -> <<>>

\* startswith that looks at the wrong character
startswith_m(name, ch) == Len(name) >= 2 /\ name[2] = ch

\* str.startswith for a one-character prefix
startswith(name, ch) == Len(name) >= 1 /\ name[1] = ch

\* Path.is_file()
is_file(f, p) == f[p] = "file"

\* Path.is_dir()
is_dir(f, p) == f[p] = "dir"

\* Path.iterdir(): the entries present in directory p
iterdir(f, p) == {c \in Paths : Parent(c) = p /\ f[c] # "absent"}

check_file(f, path) == is_file(f, path)

\* check_dir that counts hidden entries too
check_dir_m(f, path) == is_dir(f, path) /\ iterdir(f, path) # {}

check_dir(f, path) ==
    IF ~is_dir(f, path)
    THEN FALSE
    ELSE \E e \in iterdir(f, path) : ~startswith(Name(e), ".")

\* The filesystem states considered: PROJECT_ROOT is a directory, an entry
\* exists only inside a directory, "a" is a leaf that is absent or a file,
\* and .progress.json is absent or a regular file (open(...,"w") succeeds).
FsStates ==
    {f \in [Paths -> {"absent", "file", "dir"}] :
        /\ f["."] = "dir"
        /\ f["a"] \in {"absent", "file"}
        /\ f[SnapshotPath] \in {"absent", "file"}
        /\ f["b/.gitkeep"] \in {"absent", "file"}
        /\ f["b/r"] \in {"absent", "file"}
        /\ \A c \in Paths : (Parent(c) # "" /\ f[c] # "absent") => f[Parent(c)] = "dir"}

-----------------------------------------------------------------------------
(* check_pr_status                                                         *)

\* inner loop body that lets a check of unknown kind pass
CheckExists_m(f, check) ==
    IF check[1] = "file" THEN check_file(f, check[2])
    ELSE IF check[1] = "dir" THEN check_dir(f, check[2])
    ELSE TRUE

\* One pass of the inner loop body for a single (check_type, path) tuple.
CheckExists(f, check) ==
    IF check[1] = "file" THEN check_file(f, check[2])
    ELSE IF check[1] = "dir" THEN check_dir(f, check[2])
    ELSE FALSE

Detail(f, check) ==
    [type |-> check[1], path |-> check[2], exists |-> CheckExists(f, check)]

Details(f, checks) == [i \in 1..Len(checks) |-> Detail(f, checks[i])]

\* passed += 1 for every check that exists
Passed(details) == Cardinality({i \in 1..Len(details) : details[i].exists})

\* classification with an off-by-one in the in_progress test
Status_m(passed, total) ==
    IF passed = total THEN "complete"
    ELSE IF passed > 1 THEN "in_progress"
    ELSE "not_started"

Status(passed, total) ==
    IF passed = total THEN "complete"
    ELSE IF passed > 0 THEN "in_progress"
    ELSE "not_started"

\* truncation (int()) in place of round()
Round_m(passed, total) == (100 * passed) \div total

\* Python round() of the float passed / total * 100: round-half-to-even.
\* The float product equals the exact quotient's rounding for total < 40.
Round(passed, total) ==
    LET q == (100 * passed) \div total
        r == (100 * passed) % total
    IN  IF 2 * r < total THEN q
        ELSE IF 2 * r > total THEN q + 1
        ELSE IF q % 2 = 0 THEN q ELSE q + 1

Percent(passed, total) == IF total > 0 THEN Round(passed, total) ELSE 0

\* f"{passed}/{total}"
Progress(passed, total) == ToString(passed) \o "/" \o ToString(total)

PrResult(f, pr) ==
    LET details == Details(f, pr.checks)
        passed == Passed(details)
        total == Len(pr.checks)
    IN  [id |-> pr.id,
         name |-> pr.name,
         status |-> Status(passed, total),
         progress |-> Progress(passed, total),
         percent |-> Percent(passed, total),
         details |-> details]

check_pr_status(f, deliverables) ==
    [i \in 1..Len(deliverables) |-> PrResult(f, deliverables[i])]

-----------------------------------------------------------------------------
(* main() of progress.py                                                   *)

RECURSIVE SumSeq(_)
SumSeq(s) == IF s = <<>> THEN 0 ELSE Head(s) + SumSeq(Tail(s))

Group(res, status) == SelectSeq(res, LAMBDA d : d.status = status)

\* the else branch of the grouping loop takes every other status
GroupRest(res) == SelectSeq(res, LAMBDA d : d.status # "complete" /\ d.status # "in_progress")

TotalChecks(res) == SumSeq([i \in 1..Len(res) |-> Len(res[i].details)])

PassedChecks(res) == SumSeq([i \in 1..Len(res) |-> Passed(res[i].details)])

OverallPercent(passed_checks, total_checks) ==
    IF total_checks # 0 THEN Round(passed_checks, total_checks) ELSE 0

Summary(res) ==
    [complete |-> Len(Group(res, "complete")),
     in_progress |-> Len(Group(res, "in_progress")),
     not_started |-> Len(GroupRest(res)),
     total |-> Len(res),
     overall_checks_passed |-> PassedChecks(res),
     overall_checks_total |-> TotalChecks(res),
     overall_percent |-> OverallPercent(PassedChecks(res), TotalChecks(res))]

\* the `output` dictionary without its timestamp
Output(res) == [prs |-> res, summary |-> Summary(res)]

\* results = check_pr_status()
RunCheckPrStatus ==
    /\ pc = "start"
    /\ results' = check_pr_status(fs, DELIVERABLES)
    /\ pc' = "report"
    /\ UNCHANGED <<DELIVERABLES, fs, snapshot, history>>
    /\ UNCHANGED apiVars

\* grouping, summary and json.dump to PROJECT_ROOT/.progress.json
WriteReport ==
    /\ pc = "report"
    /\ snapshot' = <<Output(results)>>
    /\ fs' = [fs EXCEPT ![SnapshotPath] = "file"]
    /\ history' = Append(history, [before |-> fs, output |-> Output(results)])
    /\ pc' = "done"
    /\ UNCHANGED <<DELIVERABLES, results>>
    /\ UNCHANGED apiVars

\* the script is started again: if __name__ == "__main__": main()
Invoke ==
    /\ pc = "done"
    /\ Len(history) < MaxRuns
    /\ pc' = "start"
    /\ UNCHANGED <<DELIVERABLES, fs, results, snapshot, history>>
    /\ UNCHANGED apiVars

-----------------------------------------------------------------------------
(* Checklists                                                              *)

SeqsUpTo(S, n) == UNION {[1..k -> S] : k \in 0..n}

\* the checklist whose i-th milestone has the checks c[i]
Milestones(c) == [i \in 1..Len(c) |-> [id |-> i, name |-> "M", checks |-> c[i]]]

\* DELIVERABLES is any checklist of at most n milestones over `checklists`
AnyChecklist(checklists, n) ==
    \E k \in 0..n : \E c \in [1..k -> checklists] : DELIVERABLES = Milestones(c)

\* the checks of the classification specification; "branch" is a kind
\* check_pr_status does not know
CheckPool == {<<"file", "a">>, <<"dir", "b">>, <<"branch", "a">>}

\* the checks of the two-run specification: directory checks, the project
\* root and the snapshot file among them
FsCheckPool == {<<"dir", "b">>, <<"dir", ".">>, <<"file", SnapshotPath>>}

\* the checks of the arithmetic specification; a checklist lists its checks
\* on a before those on b (the counts do not depend on the order)
OvChecklists(n) ==
    {[i \in 1..(p + q) |-> IF i <= p THEN <<"file", "a">> ELSE <<"file", "b">>] :
        <<p, q>> \in {pq \in (0..n) \X (0..n) : pq[1] + pq[2] <= n}}

ApiIdle ==
    /\ env = None /\ args = None /\ apc = "off" /\ query = <<>> /\ url = None
    /\ payload = None /\ requests = <<>> /\ response = None
    /\ stderr = <<>> /\ stdout = None /\ ret = <<>>

TrackerStart ==
    /\ pc = "start"
    /\ results = <<>>
    /\ snapshot = <<>>
    /\ history = <<>>
    /\ ApiIdle

\* no snapshot yet; b is absent, an empty directory or holds b/r
FreshTrees == {f \in FsStates : f[SnapshotPath] = "absent" /\ f["b/.gitkeep"] = "absent" /\ f["b"] # "file"}

\* one run over every checklist of file, dir and unknown checks
Init ==
    /\ AnyChecklist(SeqsUpTo(CheckPool, MaxChecks), MaxMilestones)
    /\ fs \in FreshTrees
    /\ TrackerStart

Next == RunCheckPrStatus \/ WriteReport

Spec == Init /\ [][Next]_vars

\* every filesystem state, and the runs that follow one another
InitTwice ==
    /\ AnyChecklist(SeqsUpTo(FsCheckPool, FsMaxChecks), FsMaxMilestones)
    /\ fs \in FsStates
    /\ TrackerStart

NextTwice == RunCheckPrStatus \/ WriteReport \/ Invoke

SpecTwice == InitTwice /\ [][NextTwice]_vars

\* no snapshot yet; a and b are absent or regular files
FileTrees == {f \in FsStates : f[SnapshotPath] = "absent" /\ f["b"] # "dir"}

\* many checks over two files: the arithmetic of the overall percentage
InitOverall ==
    /\ AnyChecklist(OvChecklists(OvMaxChecks), OvMaxMilestones)
    /\ fs \in FileTrees
    /\ TrackerStart

SpecOverall == InitOverall /\ [][Next]_vars

-----------------------------------------------------------------------------
(* Properties of the tracker.  history[k] is the k-th finished run:         *)
(* .before is the filesystem it read, .output what it wrote.               *)

Runs == 1..Len(history)

Prs(k) == history[k].output.prs

Digits == <<"0", "1", "2", "3", "4", "5", "6", "7", "8", "9">>

\* the text "p/t" for one-digit p and t
Fraction(p, t) == Digits[p + 1] \o "/" \o Digits[t + 1]

\* number of checks of milestone i that run k recorded as existing
NumPassing(k, i) ==
    Cardinality({j \in 1..Len(Prs(k)[i].details) : Prs(k)[i].details[j].exists})

\* C1: a milestone whose check list is empty is classified no_checks, has
\* percent 0 and adds 0 to the passed and the total count of the summary.
C1_EmptyChecklistIsNoChecks ==
    \A k \in Runs : \A i \in 1..Len(DELIVERABLES) :
        DELIVERABLES[i].checks = <<>> =>
            /\ Prs(k)[i].status = "no_checks"
            /\ Prs(k)[i].percent = 0
            /\ Len(Prs(k)[i].details) = 0

\* C2: a milestone with at least one check is complete iff every check
\* passes, not_started iff none passes, in_progress iff some but not all
\* pass; its progress text is passed/total; checks [(file,a),(dir,b)] with
\* a present and b absent or empty give in_progress with 1/2.
C2_StatusClassification ==
    \A k \in Runs : \A i \in 1..Len(DELIVERABLES) :
        LET total == Len(DELIVERABLES[i].checks)
            np == NumPassing(k, i)
            r == Prs(k)[i]
            f == history[k].before
        IN  total >= 1 =>
            /\ r.status \in {"complete", "in_progress", "not_started"}
            /\ (r.status = "complete") <=> (np = total)
            /\ (r.status = "not_started") <=> (np = 0)
            /\ (r.status = "in_progress") <=> (0 < np /\ np < total)
            /\ r.progress = Fraction(np, total)
            /\ ( /\ DELIVERABLES[i].checks = <<(<<"file", "a">>), (<<"dir", "b">>)>>
                 /\ f["a"] = "file"
                 /\ (f["b"] = "absent" \/ (f["b"] = "dir" /\ f["b/r"] = "absent" /\ f["b/.gitkeep"] = "absent"))
                 => (r.status = "in_progress" /\ r.progress = "1/2") )

C2_Witness ==
    \E k \in Runs : \E i \in 1..Len(DELIVERABLES) :
        /\ DELIVERABLES[i].checks = <<(<<"file", "a">>), (<<"dir", "b">>)>>
        /\ history[k].before["a"] = "file"
        /\ history[k].before["b"] = "dir"
        /\ history[k].before["b/r"] = "absent"
        /\ history[k].before["b/.gitkeep"] = "absent"
        /\ Prs(k)[i].status = "in_progress"

\* the (milestone, check) positions of the checklist
CheckPositions == {<<i, j>> \in (1..Len(DELIVERABLES)) \X (1..9) : j <= Len(DELIVERABLES[i].checks)}

PassingPositions(k) == {ij \in CheckPositions : Prs(k)[ij[1]].details[ij[2]].exists}

Abs(x) == IF x < 0 THEN -x ELSE x

\* C3: the overall percent of the summary is an integer nearest to
\* 100 * passed / total over all checks of all milestones (0 when total is
\* 0), passed <= total, and milestones with 2/2, 1/3 and 0/0 give 60.
C3_OverallPercent ==
    \A k \in Runs :
        LET sm == history[k].output.summary
            T == Cardinality(CheckPositions)
            P == Cardinality(PassingPositions(k))
        IN  /\ sm.overall_checks_total = T
            /\ sm.overall_checks_passed = P
            /\ sm.overall_checks_passed <= sm.overall_checks_total
            /\ (T = 0 => sm.overall_percent = 0)
            /\ (T > 0 => 2 * Abs(sm.overall_percent * T - 100 * P) <= T)
            /\ ( (/\ Len(DELIVERABLES) = 3
                  /\ Prs(k)[1].progress = "2/2"
                  /\ Prs(k)[2].progress = "1/3"
                  /\ Prs(k)[3].progress = "0/0") => sm.overall_percent = 60 )

C3_Witness ==
    \E k \in Runs :
        /\ Len(DELIVERABLES) = 3
        /\ Prs(k)[1].progress = "2/2"
        /\ Prs(k)[2].progress = "1/3"
        /\ Prs(k)[3].progress = "0/0"
        /\ history[k].output.summary.overall_percent = 60

\* some file check names the snapshot file itself
ChecksSnapshotFile ==
    \E i \in 1..Len(DELIVERABLES) : \E j \in 1..Len(DELIVERABLES[i].checks) :
        DELIVERABLES[i].checks[j] = <<"file", SnapshotPath>>

\* C4 as stated: two runs in sequence write identical prs and summary.
C4_RunsIdentical ==
    Len(history) >= 2 => history[1].output = history[2].output

\* C4 amended: two runs in sequence write identical prs and summary unless
\* a file check names .progress.json and that file did not exist before
\* the first run; the snapshot write changes no other check.
C4_RunsIdenticalUnlessSnapshotChecked ==
    \A k \in Runs :
        (k + 1 \in Runs /\ (~ChecksSnapshotFile \/ history[1].before[SnapshotPath] = "file"))
            => history[k].output = history[k + 1].output

\* a directory check on the project root whose only entry after the first
\* run is the snapshot
C4_Witness ==
    /\ Len(history) >= 2
    /\ ~ChecksSnapshotFile
    /\ \E i \in 1..Len(DELIVERABLES) : \E j \in 1..Len(DELIVERABLES[i].checks) :
          DELIVERABLES[i].checks[j] = <<"dir", ".">>
    /\ history[1].before[SnapshotPath] = "absent"
    /\ history[2].before[SnapshotPath] = "file"
    /\ history[1].before["a"] = "absent"
    /\ history[1].before["b"] = "absent"
    /\ history[1].output = history[2].output

\* the directory has an entry whose name does not start with "."
HasVisibleEntry(f, p) ==
    \E c \in Paths : Parent(c) = p /\ f[c] \in {"file", "dir"} /\ Head(Name(c)) # "."

\* C9: a directory check passes iff the path is an existing directory with
\* an entry whose name does not start with "."; a missing path, a regular
\* file, an empty directory and a directory with only dot entries fail.
C9_DirCheck ==
    \A k \in Runs : \A i \in 1..Len(DELIVERABLES) : \A j \in 1..Len(DELIVERABLES[i].checks) :
        LET f == history[k].before
            c == DELIVERABLES[i].checks[j]
            d == Prs(k)[i].details[j]
        IN  c[1] = "dir" =>
            /\ d.exists <=> (f[c[2]] = "dir" /\ HasVisibleEntry(f, c[2]))
            /\ (f[c[2]] = "absent" => ~d.exists)
            /\ (f[c[2]] = "file" => ~d.exists)
            /\ ((f[c[2]] = "dir" /\ \A e \in Paths : Parent(e) = c[2] => f[e] = "absent") => ~d.exists)
            /\ ((c[2] = "b" /\ f["b"] = "dir" /\ f["b/.gitkeep"] = "file" /\ f["b/r"] = "absent") => ~d.exists)

\* a run that checked directory b holding only .gitkeep
C9_Witness ==
    \E k \in Runs : \E i \in 1..Len(DELIVERABLES) : \E j \in 1..Len(DELIVERABLES[i].checks) :
        /\ DELIVERABLES[i].checks[j] = <<"dir", "b">>
        /\ history[k].before["b"] = "dir"
        /\ history[k].before["b/.gitkeep"] = "file"
        /\ history[k].before["b/r"] = "absent"
        /\ ~Prs(k)[i].details[j].exists

KnownKind(c) == c[1] \in {"file", "dir"}

\* C10: a check of unknown kind is recorded as failing; the run still
\* records every check of every milestone, counts the unknown check in the
\* milestone's total but not in passed, and writes the snapshot.
C10_UnknownKindFails ==
    \A k \in Runs :
        (\E i \in 1..Len(DELIVERABLES) : \E j \in 1..Len(DELIVERABLES[i].checks) :
            ~KnownKind(DELIVERABLES[i].checks[j]))
        => /\ Len(Prs(k)) = Len(DELIVERABLES)
           /\ \A i \in 1..Len(DELIVERABLES) :
                LET cs == DELIVERABLES[i].checks
                    ds == Prs(k)[i].details
                    known == {j \in 1..Len(cs) : KnownKind(cs[j]) /\ ds[j].exists}
                IN  /\ Len(ds) = Len(cs)
                    /\ \A j \in 1..Len(cs) :
                          /\ ds[j].type = cs[j][1] /\ ds[j].path = cs[j][2]
                          /\ ~KnownKind(cs[j]) => ~ds[j].exists
                    /\ Prs(k)[i].progress = Fraction(Cardinality(known), Len(cs))
           /\ history[k].output.summary.overall_checks_total = Cardinality(CheckPositions)
           /\ (k = Len(history) => snapshot = <<history[k].output>>)
           /\ history[k].output.prs = Prs(k)

\* an unknown check first, a passing file check after it, and a later milestone
C10_Witness ==
    \E k \in Runs :
        /\ Len(DELIVERABLES) = 2
        /\ DELIVERABLES[1].checks = <<(<<"branch", "a">>), (<<"file", "a">>)>>
        /\ Len(DELIVERABLES[2].checks) >= 1
        /\ history[k].before["a"] = "file"
        /\ Prs(k)[1].progress = "1/2"
        /\ Prs(k)[2].status = "complete"
        /\ snapshot # <<>>

-----------------------------------------------------------------------------
(* grafana_api.py.  Strings are character sequences; None is Python None.  *)

\* Python truthiness of an Optional[str] / list
Truthy(x) == x # None /\ x # <<>>

Contains(s, ch) == \E i \in 1..Len(s) : s[i] = ch

\* index of the first occurrence of ch in s (s contains ch)
IndexOf(s, ch) == CHOOSE i \in 1..Len(s) : s[i] = ch /\ \A j \in 1..(i - 1) : s[j] # ch

\* parsed.setdefault(key, []).append(value) on an insertion-ordered dict,
\* kept as a sequence of [key, values] entries
DictAppend(parsed, key, value) ==
    IF \E i \in 1..Len(parsed) : parsed[i].key = key
    THEN [i \in 1..Len(parsed) |->
            IF parsed[i].key = key
            THEN [key |-> key, values |-> Append(parsed[i].values, value)]
            ELSE parsed[i]]
    ELSE Append(parsed, [key |-> key, values |-> <<value>>])

RECURSIVE ParseItems(_, _)
ParseItems(items, parsed) ==
    IF items = <<>> THEN [ok |-> TRUE, value |-> parsed]
    ELSE LET item == Head(items) IN
         IF ~Contains(item, "=")
         THEN [ok |-> FALSE, exc |-> "ValueError", msg |-> "Invalid query item", item |-> item]
         ELSE LET k == IndexOf(item, "=") IN
              ParseItems(Tail(items),
                         DictAppend(parsed, SubSeq(item, 1, k - 1), SubSeq(item, k + 1, Len(item))))

\* parse_query that skips an item without "=" instead of raising
RECURSIVE ParseItemsSkip(_, _)
ParseItemsSkip(items, parsed) ==
    IF items = <<>> THEN [ok |-> TRUE, value |-> parsed]
    ELSE LET item == Head(items) IN
         IF ~Contains(item, "=")
         THEN ParseItemsSkip(Tail(items), parsed)
         ELSE LET k == IndexOf(item, "=") IN
              ParseItemsSkip(Tail(items),
                             DictAppend(parsed, SubSeq(item, 1, k - 1), SubSeq(item, k + 1, Len(item))))

parse_query_m(items) ==
    IF ~Truthy(items) THEN [ok |-> TRUE, value |-> <<>>]
    ELSE ParseItemsSkip(items, <<>>)

parse_query(items) ==
    IF ~Truthy(items) THEN [ok |-> TRUE, value |-> <<>>]
    ELSE ParseItems(items, <<>>)

RECURSIVE rstrip(_, _)
rstrip(s, ch) ==
    IF s # <<>> /\ s[Len(s)] = ch THEN rstrip(SubSeq(s, 1, Len(s) - 1), ch) ELSE s

\* urllib.parse.quote_plus on the characters that occur in the model
QuoteChar(c) == IF c = "=" THEN <<"%", "3", "D">> ELSE <<c>>

RECURSIVE quote_plus(_)
quote_plus(s) == IF s = <<>> THEN <<>> ELSE QuoteChar(Head(s)) \o quote_plus(Tail(s))

RECURSIVE JoinAmp(_)
JoinAmp(parts) ==
    IF parts = <<>> THEN <<>>
    ELSE IF Len(parts) = 1 THEN parts[1]
    ELSE parts[1] \o <<"&">> \o JoinAmp(Tail(parts))

RECURSIVE Pairs(_)
Pairs(q) ==
    IF q = <<>> THEN <<>>
    ELSE [i \in 1..Len(q[1].values) |->
            quote_plus(q[1].key) \o <<"=">> \o quote_plus(q[1].values[i])] \o Pairs(Tail(q))

\* urllib.parse.urlencode(query, doseq=True)
urlencode(q) == JoinAmp(Pairs(q))

build_url(base, path, q) ==
    LET b == rstrip(base, "/")
        p == IF startswith(path, "/") THEN path ELSE <<"/">> \o path
        u == b \o p
    IN  IF q # <<>> THEN u \o <<"?">> \o urlencode(q) ELSE u

\* content of the file a --data-file path names (the file can be read)
FileBytes(path) == <<"bytes", "F">> \o path

\* str.encode("utf-8") on ASCII text
Encode(s) == <<"bytes">> \o s

\* read_payload that tests "is not None" on both arguments
read_payload_m(data, data_file) ==
    IF data # None /\ data_file # None
    THEN [ok |-> FALSE, exc |-> "ValueError", msg |-> "Use only one of --data or --data-file."]
    ELSE IF Truthy(data_file) THEN [ok |-> TRUE, value |-> FileBytes(data_file)]
    ELSE IF data # None THEN [ok |-> TRUE, value |-> Encode(data)]
    ELSE [ok |-> TRUE, value |-> None]

read_payload(data, data_file) ==
    IF Truthy(data) /\ Truthy(data_file)
    THEN [ok |-> FALSE, exc |-> "ValueError", msg |-> "Use only one of --data or --data-file."]
    ELSE IF Truthy(data_file) THEN [ok |-> TRUE, value |-> FileBytes(data_file)]
    ELSE IF data # None THEN [ok |-> TRUE, value |-> Encode(data)]
    ELSE [ok |-> TRUE, value |-> None]

\* str.upper() on the argparse choices of `method`
upper(m) ==
    CASE m = "get" -> "GET"
      [] m = "post" -> "POST"
      [] m = "put" -> "PUT"
      [] m = "delete" -> "DELETE"
      [] OTHER -> m

\* the urllib.request.Request that make_request builds
Request(method, u, token, body, content_type) ==
    [method |-> method,
     url |-> u,
     headers |-> [h \in {"Authorization", "Accept"} \cup (IF body # None THEN {"Content-Type"} ELSE {}) |->
                    CASE h = "Authorization" -> <<"Bearer", token>>
                      [] h = "Accept" -> "application/json"
                      [] h = "Content-Type" -> content_type],
     data |-> body]

\* what urllib.request.urlopen can do with one request: a 2xx response
\* (JSON or not), an HTTPError, or a URLError (connection-level failure)
Outcomes ==
    {[kind |-> "ok", body |-> <<"json">>],
     [kind |-> "ok", body |-> <<"text">>],
     [kind |-> "HTTPError", code |-> 404, reason |-> "Not Found", body |-> <<"text">>],
     [kind |-> "URLError", reason |-> "Connection refused"]}

\* exceptions main() catches: except (ValueError, RuntimeError)
Caught(exc) == exc \in {"ValueError", "RuntimeError"}

\* what make_request raises or returns for an outcome of urlopen
MakeRequestResult(o) ==
    CASE o.kind = "ok" -> [ok |-> TRUE, value |-> o.body]
      [] o.kind = "HTTPError" ->
            [ok |-> FALSE, exc |-> "RuntimeError", msg |-> "HTTP",
             code |-> o.code, reason |-> o.reason, body |-> o.body]
      [] OTHER -> [ok |-> FALSE, exc |-> o.kind, msg |-> o.reason]

\* an exception raised inside the try block of main(): caught, printed and
\* turned into return 1, or left to the interpreter (traceback, no return)
Raise(r) ==
    IF Caught(r.exc)
    THEN /\ stderr' = Append(stderr, [by |-> "main", error |-> r])
         /\ ret' = <<1>>
         /\ apc' = "done"
    ELSE /\ stderr' = Append(stderr, [by |-> "traceback", error |-> r])
         /\ UNCHANGED ret
         /\ apc' = "uncaught"

\* credentials test that only looks for unset variables
CredentialsMissing_m(e) == e.url = None \/ e.token = None

\* if not grafana_url or not grafana_token
CredentialsMissing(e) == ~Truthy(e.url) \/ ~Truthy(e.token)

\* os.getenv and the credentials test
CheckEnv ==
    /\ apc = "env"
    /\ IF CredentialsMissing(env)
       THEN /\ stderr' = Append(stderr, [by |-> "main",
                                         error |-> [ok |-> FALSE, exc |-> "",
                                                    msg |-> "GRAFANA_URL and GRAFANA_API_KEY must be set."]])
            /\ ret' = <<1>>
            /\ apc' = "done"
       ELSE /\ apc' = "parse_query"
            /\ UNCHANGED <<stderr, ret>>
    /\ UNCHANGED <<env, args, query, url, payload, requests, response, stdout>>
    /\ UNCHANGED trackerVars

\* query = parse_query(args.query)
ParseQuery ==
    /\ apc = "parse_query"
    /\ LET r == parse_query(args.query) IN
       IF r.ok
       THEN /\ query' = r.value
            /\ apc' = "build_url"
            /\ UNCHANGED <<stderr, ret>>
       ELSE /\ Raise(r)
            /\ UNCHANGED query
    /\ UNCHANGED <<env, args, url, payload, requests, response, stdout>>
    /\ UNCHANGED trackerVars

\* url = build_url(grafana_url, args.path, query)
BuildUrl ==
    /\ apc = "build_url"
    /\ url' = build_url(env.url, args.path, query)
    /\ apc' = "read_payload"
    /\ UNCHANGED <<env, args, query, payload, requests, response, stderr, stdout, ret>>
    /\ UNCHANGED trackerVars

\* payload = read_payload(args.data, args.data_file)
ReadPayload ==
    /\ apc = "read_payload"
    /\ LET r == read_payload(args.data, args.data_file) IN
       IF r.ok
       THEN /\ payload' = r.value
            /\ apc' = "make_request"
            /\ UNCHANGED <<stderr, ret>>
       ELSE /\ Raise(r)
            /\ UNCHANGED payload
    /\ UNCHANGED <<env, args, query, url, requests, response, stdout>>
    /\ UNCHANGED trackerVars

\* response = make_request(args.method.upper(), url, grafana_token, payload, args.content_type)
MakeRequest ==
    /\ apc = "make_request"
    /\ requests' = Append(requests, Request(upper(args.method), url, env.token, payload, args.content_type))
    /\ \E o \in Outcomes :
         LET r == MakeRequestResult(o) IN
         IF r.ok
         THEN /\ response' = r.value
              /\ apc' = "output"
              /\ UNCHANGED <<stderr, ret>>
         ELSE /\ Raise(r)
              /\ UNCHANGED response
    /\ UNCHANGED <<env, args, query, url, payload, stdout>>
    /\ UNCHANGED trackerVars

\* --raw, json.loads with its fallback, json.dumps
PrintResponse ==
    /\ apc = "output"
    /\ stdout' = IF args.raw THEN <<"raw">> \o response
                 ELSE IF response = <<"json">> THEN <<"pretty">> \o response
                 ELSE <<"raw">> \o response
    /\ ret' = <<0>>
    /\ apc' = "done"
    /\ UNCHANGED <<env, args, query, url, payload, requests, response, stderr>>
    /\ UNCHANGED trackerVars

QueryItems ==
    {<<"k", "=", "v">>, <<"k", "=", "w">>, <<"j", "=", "a", "=", "b">>, <<"b", "a", "d">>}

Methods == {"get", "post", "put", "delete"}

TrackerIdle ==
    /\ DELIVERABLES = <<>> /\ fs = [p \in Paths |-> IF p = "." THEN "dir" ELSE "absent"]
    /\ pc = "off" /\ results = <<>> /\ snapshot = <<>> /\ history = <<>>

InitApi ==
    /\ env \in [url : {None, <<>>, <<"h">>, <<"h", "/">>}, token : {None, <<>>, <<"t">>}]
    /\ args \in [method : Methods,
                 path : {<<"/", "x">>, <<"x">>},
                 query : SeqsUpTo(QueryItems, MaxQueryItems),
                 data : {None, <<>>, <<"d">>},
                 data_file : {None, <<>>, <<"f">>},
                 content_type : {"application/json"},
                 raw : BOOLEAN]
    /\ apc = "env"
    /\ query = <<>> /\ url = None /\ payload = None /\ requests = <<>>
    /\ response = None /\ stderr = <<>> /\ stdout = None /\ ret = <<>>
    /\ TrackerIdle

NextApi == CheckEnv \/ ParseQuery \/ BuildUrl \/ ReadPayload \/ MakeRequest \/ PrintResponse

SpecApi == InitApi /\ [][NextApi]_vars

-----------------------------------------------------------------------------
(* Properties of the API helper                                            *)

CredsSet == env.url \notin {None, <<>>} /\ env.token \notin {None, <<>>}

BadItem(item) == \A i \in 1..Len(item) : item[i] # "="

HasBadItem == \E i \in 1..Len(args.query) : BadItem(args.query[i])

\* main() is over: it returned, or an exception left it
Terminated == apc \in {"done", "uncaught"}

\* control has passed the call of make_request
PastRequest == apc \in {"output", "done", "uncaught"}

LastError == stderr[Len(stderr)]

\* C5: with credentials set and a --query item without "=", parse_query
\* fails before build_url and make_request: no URL is built, no request is
\* issued, the error is printed to stderr and main returns 1.
C5_BadQueryItemFailsFirst ==
    (CredsSet /\ HasBadItem) =>
        /\ apc \in {"env", "parse_query", "done"}
        /\ url = None
        /\ payload = None
        /\ requests = <<>>
        /\ apc = "done" =>
              /\ ret = <<1>>
              /\ Len(stderr) = 1
              /\ stderr[1].by = "main"
              /\ stderr[1].error.exc = "ValueError"
              /\ stderr[1].error.msg = "Invalid query item"
              /\ BadItem(stderr[1].error.item)

\* a well-formed item first, the malformed one second
C5_Witness ==
    /\ CredsSet
    /\ Len(args.query) = 2
    /\ ~BadItem(args.query[1])
    /\ BadItem(args.query[2])
    /\ apc = "done"
    /\ ret = <<1>>
    /\ requests = <<>>

UseOnlyOne(e) == e.by = "main" /\ e.error.exc = "ValueError" /\ e.error.msg = "Use only one of --data or --data-file."

HasContentType(r) == "Content-Type" \in DOMAIN r.headers

C7_RequestFailuresHandled ==
    /\ (Terminated /\ Len(requests) >= 1 /\ response = None) =>
          (apc = "done" /\ ret = <<1>> /\ LastError.by = "main" /\ LastError.error.exc = "RuntimeError")
    /\ ret = <<0>> => (Len(requests) = 1 /\ response # None)

InputValid ==
    /\ ~HasBadItem
    /\ ~(args.data \notin {None, <<>>} /\ args.data_file \notin {None, <<>>})

====
